---- MODULE Spec2Model ----
(***************************************************************************)
(* A model of src/auth.js: the CVrio OAuth server.  One process-global     *)
(* session slot (currentUser), a start-up script that validates the        *)
(* configuration, synchronous route handlers, and the asynchronous         *)
(* /auth/google/callback handler, which is cut at its three awaits (token  *)
(* exchange, userinfo fetch, store upsert).  The external store is a table *)
(* keyed by email; it applies an upsert in a step of its own, between the  *)
(* handler's call and the handler's resumption.                            *)
(***************************************************************************)
EXTENDS Integers, Sequences, FiniteSets, TLC

\* ------------------------------------------------------------- bounds

\* Number of callback requests that can be in flight at the same time.
NReq == 2

Reqs == 1..NReq

\* ------------------------------------------------------------- values

\* JavaScript's undefined (an absent environment variable or query parameter).
Undef == "<undefined>"

\* JavaScript's null, and the empty value of optional record-valued slots.
Null == [null |-> TRUE]

\* Values an environment variable can have: absent, empty, set.
EnvValues == {Undef, "", "set"}

\* Values of the `code` and `error` query parameters of a callback request.
CodeValues == {Undef, "", "c1"}
ErrorValues == {Undef, "", "access_denied"}

\* The userinfo documents the provider can return.  Two share an email (a
\* returning user whose name and picture changed); the documents carry a
\* field the server does not copy.
Profiles ==
  { [id |-> "1", email |-> "a@b.com", name |-> "A", picture |-> "p", verified_email |-> "true"],
    [id |-> "1", email |-> "a@b.com", name |-> "A2", picture |-> "p2", verified_email |-> "true"],
    [id |-> "2", email |-> "c@d.com", name |-> "C", picture |-> "q", verified_email |-> "false"] }

Emails == { p.email : p \in Profiles }

\* How an axios call ends: a 2xx response, a transport error (no response),
\* or a non-2xx response (err.response is set).  Both failures reject.
HttpOutcomes == {"ok", "transport", "non2xx"}

\* How the store's upsert ends for the handler: a result without an error, a
\* result carrying an error object, or a rejected promise.
UpsertOutcomes == {"ok", "error", "throw"}

\* The names validateConfig reports, in the order it tests them.
RequiredNames == <<"SUPABASE_URL", "SUPABASE_ANON_KEY", "GOOGLE_CLIENT_ID", "GOOGLE_CLIENT_SECRET">>

VARIABLES
  phase,        \* "boot" | "validated" | "serving" | "exited"
  envConfig,    \* the four required values of envConfig
  missingVars,  \* what validateConfig reported
  exitCode,     \* the process's exit status (-1: has not exited)
  supabase,     \* whether the store client has been created
  currentUser,  \* the session slot: Null or {id, email, name, picture}
  store,        \* the external users table: its set of rows
  reqs,         \* the callback requests in flight
  last          \* the step that ran last, and the response it sent if any

vars == <<phase, envConfig, missingVars, exitCode, supabase, currentUser, store, reqs, last>>

\* ------------------------------------------------------------ helpers

\* Mutant of Truthy: tests only for undefined, so an empty string counts as set.
TruthyDefinedOnly(v) == v # Undef

\* JavaScript truthiness of a string-or-undefined value.
Truthy(v) == v # Undef /\ v # ""

\* Truthiness of the session slot (null or an object).
HasUser(cu) == cu # Null

\* envConfig as built from process.env.
Configs == [url : EnvValues, key : EnvValues, clientId : EnvValues, clientSecret : EnvValues]

\* Mutant of MissingOf: the test of the client secret is forgotten.
MissingOfForgetsSecret(cfg) ==
  (IF ~Truthy(cfg.url) THEN <<"SUPABASE_URL">> ELSE <<>>)
  \o (IF ~Truthy(cfg.key) THEN <<"SUPABASE_ANON_KEY">> ELSE <<>>)
  \o (IF ~Truthy(cfg.clientId) THEN <<"GOOGLE_CLIENT_ID">> ELSE <<>>)

\* validateConfig's missingVars array.
MissingOf(cfg) ==
  (IF ~Truthy(cfg.url) THEN <<RequiredNames[1]>> ELSE <<>>)
  \o (IF ~Truthy(cfg.key) THEN <<RequiredNames[2]>> ELSE <<>>)
  \o (IF ~Truthy(cfg.clientId) THEN <<RequiredNames[3]>> ELSE <<>>)
  \o (IF ~Truthy(cfg.clientSecret) THEN <<RequiredNames[4]>> ELSE <<>>)

\* A callback request that is not running.
IdleReq == [pc |-> "idle", code |-> Undef, user |-> Null, trace |-> <<>>]

\* Mutant of SessionUser: the whole userinfo document is stored.
SessionUserWhole(user) == user

\* The object the callback stores in the session slot.
SessionUser(user) ==
  [id |-> user.id, email |-> user.email, name |-> user.name, picture |-> user.picture]

\* The row the callback upserts (last_login, a timestamp, is left out).
UpsertRow(user) ==
  [email |-> user.email, name |-> user.name, picture |-> user.picture, google_id |-> user.id]

\* Mutant of StoreApply: a plain insert, the conflict on email is not resolved.
StoreApplyInsert(st, row) == st \cup {row}

\* The store's upsert with onConflict: 'email': the row replaces, as a whole,
\* the row with the same email if there is one.
StoreApply(st, row) == { x \in st : x.email # row.email } \cup {row}

\* GET /: the view rendered from the session slot.
HomeView(cu) ==
  IF HasUser(cu)
    THEN [status |-> 200, view |-> "welcome", name |-> cu.name, picture |-> cu.picture,
          email |-> cu.email]
    ELSE [status |-> 200, view |-> "login"]

\* Mutant of ProfileResponse: the guard on the session slot is missing.
ProfileResponseNoGuard(cu) ==
  [status |-> 200, message |-> "This is a protected route", user |-> cu]

\* GET /profile: the response computed from the session slot.
ProfileResponse(cu) ==
  IF ~HasUser(cu)
    THEN [status |-> 401, error |-> "Unauthorized", loginUrl |-> "/auth/google"]
    ELSE [status |-> 200, message |-> "This is a protected route", user |-> cu]

\* GET /health: the response body.
HealthBody(cfg, cu) ==
  [status |-> 200, authenticated |-> HasUser(cu),
   hasDatabase |-> Truthy(cfg.url), hasGoogleOAuth |-> Truthy(cfg.clientId)]

\* Mutant of EntryCheck: the code is tested first and an error parameter is
\* looked at only when there is no code.
EntryCheckCodeFirst(code, error) ==
  IF Truthy(code) THEN "exchange"
  ELSE IF Truthy(error) THEN "oauthError"
  ELSE "noCode"

\* Mutant of EntryCheck: the test for a missing code is left out.
EntryCheckNoCodeGuard(code, error) ==
  IF Truthy(error) THEN "oauthError" ELSE "exchange"

\* The callback's two entry checks on req.query.
EntryCheck(code, error) ==
  IF Truthy(error) THEN "oauthError"
  ELSE IF ~Truthy(code) THEN "noCode"
  ELSE "exchange"

\* ------------------------------------------------------------ history

\* What the step before the coming one was, as far as later steps are judged
\* by it: a /logout that cleared a user, a /logout of an empty slot, or any
\* other step.  (A history field of `last`; the program does not read it.)
After ==
  IF last.op = "logout"
    THEN (IF last.loggedOut # Undef THEN "logoutOfUser" ELSE "logoutOfNobody")
    ELSE "other"

\* The callback requests suspended at an await.
InFlight == { r \in Reqs : reqs[r].pc # "idle" }

\* The slot a new callback request takes: the lowest one not in flight (0 when
\* all are in flight; the slots are interchangeable names of requests).
FreeSlot ==
  IF InFlight = Reqs THEN 0
  ELSE CHOOSE r \in Reqs \ InFlight : \A q \in Reqs \ InFlight : r <= q

\* ------------------------------------------------------------ start-up

Init ==
  /\ phase = "boot"
  /\ envConfig \in Configs
  /\ missingVars = <<>>
  /\ exitCode = -1
  /\ supabase = FALSE
  /\ currentUser = Null
  /\ store = {}
  /\ reqs = [r \in Reqs |-> IdleReq]
  /\ last = [op |-> "none", after |-> "other"]

\* Mutant of ValidateConfig: the missing names are reported but the process
\* does not exit.
ValidateConfigNoExit ==
  /\ phase = "boot"
  /\ missingVars' = MissingOf(envConfig)
  /\ phase' = "validated"
  /\ exitCode' = exitCode
  /\ last' = [op |-> "validateConfig", after |-> After]
  /\ UNCHANGED <<envConfig, supabase, currentUser, store, reqs>>

\* validateConfig(), called at start-up.
ValidateConfig ==
  /\ phase = "boot"
  /\ missingVars' = MissingOf(envConfig)
  /\ IF Len(MissingOf(envConfig)) > 0
       THEN phase' = "exited" /\ exitCode' = 1
       ELSE phase' = "validated" /\ exitCode' = exitCode
  /\ last' = [op |-> "validateConfig", after |-> After]
  /\ UNCHANGED <<envConfig, supabase, currentUser, store, reqs>>

\* The rest of the start-up script: createClient, the routes, app.listen.
StartServer ==
  /\ phase = "validated"
  /\ supabase' = TRUE
  /\ phase' = "serving"
  /\ last' = [op |-> "startServer", after |-> After]
  /\ UNCHANGED <<envConfig, missingVars, exitCode, currentUser, store, reqs>>

\* -------------------------------------------------- synchronous routes

Home ==
  /\ phase = "serving"
  /\ last' = [op |-> "home", resp |-> HomeView(currentUser), after |-> After]
  /\ UNCHANGED <<phase, envConfig, missingVars, exitCode, supabase, currentUser, store, reqs>>

AuthGoogle ==
  /\ phase = "serving"
  /\ last' = [op |-> "authGoogle", after |-> After,
              resp |-> [status |-> 302, location |-> "accounts.google.com"]]
  /\ UNCHANGED <<phase, envConfig, missingVars, exitCode, supabase, currentUser, store, reqs>>

\* Mutant of Logout: a logout without a user is refused with 401.
LogoutRejectsAnonymous ==
  /\ phase = "serving"
  /\ currentUser' = IF HasUser(currentUser) THEN Null ELSE currentUser
  /\ last' = [op |-> "logout", after |-> After,
              loggedOut |-> IF HasUser(currentUser) THEN currentUser.email ELSE Undef,
              resp |-> IF HasUser(currentUser) THEN [status |-> 200, view |-> "loggedOut"]
                       ELSE [status |-> 401, view |-> "loggedOut"]]
  /\ UNCHANGED <<phase, envConfig, missingVars, exitCode, supabase, store, reqs>>

\* Mutant of Logout: the page is sent but the slot is not cleared.
LogoutKeepsSession ==
  /\ phase = "serving"
  /\ last' = [op |-> "logout", after |-> After,
              loggedOut |-> IF HasUser(currentUser) THEN currentUser.email ELSE Undef,
              resp |-> [status |-> 200, view |-> "loggedOut"]]
  /\ UNCHANGED <<phase, envConfig, missingVars, exitCode, supabase, currentUser, store, reqs>>

\* GET /logout: clears the slot if it holds a user, then sends the page.
Logout ==
  /\ phase = "serving"
  /\ currentUser' = IF HasUser(currentUser) THEN Null ELSE currentUser
  /\ last' = [op |-> "logout", after |-> After,
              loggedOut |-> IF HasUser(currentUser) THEN currentUser.email ELSE Undef,
              resp |-> [status |-> 200, view |-> "loggedOut"]]
  /\ UNCHANGED <<phase, envConfig, missingVars, exitCode, supabase, store, reqs>>

\* Mutant of Profile: the guard assigns instead of comparing
\* (`if (currentUser = null)`), which empties the slot.
ProfileClearsSession ==
  /\ phase = "serving"
  /\ currentUser' = Null
  /\ last' = [op |-> "profile", resp |-> ProfileResponse(currentUser), after |-> After]
  /\ UNCHANGED <<phase, envConfig, missingVars, exitCode, supabase, store, reqs>>

\* GET /profile.
Profile ==
  /\ phase = "serving"
  /\ last' = [op |-> "profile", resp |-> ProfileResponse(currentUser), after |-> After]
  /\ UNCHANGED <<phase, envConfig, missingVars, exitCode, supabase, currentUser, store, reqs>>

Health ==
  /\ phase = "serving"
  /\ last' = [op |-> "health", resp |-> HealthBody(envConfig, currentUser), after |-> After]
  /\ UNCHANGED <<phase, envConfig, missingVars, exitCode, supabase, currentUser, store, reqs>>

NotFound ==
  /\ phase = "serving"
  /\ last' = [op |-> "notFound", resp |-> [status |-> 404], after |-> After]
  /\ UNCHANGED <<phase, envConfig, missingVars, exitCode, supabase, currentUser, store, reqs>>

\* ------------------------------------------- GET /auth/google/callback

\* The record of a callback step: the request, the step of the handler that
\* ran, the query it was entered with (entry step only), the response it sent
\* (Null while the handler is suspended again), the session slot as the step
\* found it, and the request's events so far.
CallbackStep(r, step, code, error, resp, trace) ==
  [op |-> "callback", req |-> r, step |-> step, code |-> code, error |-> error,
   resp |-> resp, before |-> currentUser, trace |-> trace, after |-> After]

\* The handler up to its first await: the two checks on the query, then the
\* POST to the token endpoint.
CallbackEntry(r, code, error) ==
  /\ phase = "serving"
  /\ r = FreeSlot
  /\ LET check == EntryCheck(code, error) IN
       CASE check = "oauthError" ->
              /\ last' = CallbackStep(r, "entry", code, error,
                           [status |-> 400, page |-> "Authentication Error"],
                           << <<"respond", "400">> >>)
              /\ UNCHANGED reqs
         [] check = "noCode" ->
              /\ last' = CallbackStep(r, "entry", code, error,
                           [status |-> 400, page |-> "No authorization code provided"],
                           << <<"respond", "400">> >>)
              /\ UNCHANGED reqs
         [] OTHER ->
              /\ reqs' = [reqs EXCEPT ![r] =
                           [IdleReq EXCEPT !.pc = "awaitToken", !.code = code,
                                           !.trace = << <<"tokenCall", code>> >>]]
              /\ last' = CallbackStep(r, "entry", code, error, Null, reqs'[r].trace)
  /\ UNCHANGED <<phase, envConfig, missingVars, exitCode, supabase, currentUser, store>>

\* Mutant of TokenReturn: a failed token exchange is retried once with the same
\* code before the handler gives up.
TokenReturnRetries(r, outcome) ==
  /\ reqs[r].pc = "awaitToken"
  /\ IF outcome = "ok"
       THEN /\ reqs' = [reqs EXCEPT ![r].pc = "awaitUser",
                                    ![r].trace = @ \o << <<"tokenOk", "t1">>, <<"userinfoCall", "t1">> >>]
            /\ last' = CallbackStep(r, "token", reqs[r].code, Undef, Null, reqs'[r].trace)
       ELSE IF Len(reqs[r].trace) = 1
         THEN /\ reqs' = [reqs EXCEPT ![r].trace = @ \o << <<"tokenFailed", outcome>>,
                                                           <<"tokenCall", reqs[r].code>> >>]
              /\ last' = CallbackStep(r, "token", reqs[r].code, Undef, Null, reqs'[r].trace)
         ELSE /\ reqs' = [reqs EXCEPT ![r] = IdleReq]
              /\ last' = CallbackStep(r, "token", reqs[r].code, Undef,
                           [status |-> 500, page |-> "Authentication Failed", cause |-> outcome],
                           reqs[r].trace \o << <<"tokenFailed", outcome>>, <<"respond", "500">> >>)
  /\ UNCHANGED <<phase, envConfig, missingVars, exitCode, supabase, currentUser, store>>

\* Mutant of TokenReturn: the catch block also clears the session slot.
TokenReturnClearsOnFailure(r, outcome) ==
  /\ reqs[r].pc = "awaitToken"
  /\ IF outcome = "ok"
       THEN /\ reqs' = [reqs EXCEPT ![r].pc = "awaitUser",
                                    ![r].trace = @ \o << <<"tokenOk", "t1">>, <<"userinfoCall", "t1">> >>]
            /\ last' = CallbackStep(r, "token", reqs[r].code, Undef, Null, reqs'[r].trace)
            /\ currentUser' = currentUser
       ELSE /\ reqs' = [reqs EXCEPT ![r] = IdleReq]
            /\ last' = CallbackStep(r, "token", reqs[r].code, Undef,
                         [status |-> 500, page |-> "Authentication Failed", cause |-> outcome],
                         reqs[r].trace \o << <<"tokenFailed", outcome>>, <<"respond", "500">> >>)
            /\ currentUser' = Null
  /\ UNCHANGED <<phase, envConfig, missingVars, exitCode, supabase, store>>

\* The token POST settles: on success the handler goes on to the userinfo GET,
\* on a rejection the catch block replies 500.
TokenReturn(r, outcome) ==
  /\ reqs[r].pc = "awaitToken"
  /\ IF outcome = "ok"
       THEN /\ reqs' = [reqs EXCEPT ![r].pc = "awaitUser",
                                    ![r].trace = @ \o << <<"tokenOk", "t1">>, <<"userinfoCall", "t1">> >>]
            /\ last' = CallbackStep(r, "token", reqs[r].code, Undef, Null, reqs'[r].trace)
       ELSE /\ reqs' = [reqs EXCEPT ![r] = IdleReq]
            /\ last' = CallbackStep(r, "token", reqs[r].code, Undef,
                         [status |-> 500, page |-> "Authentication Failed", cause |-> outcome],
                         reqs[r].trace \o << <<"tokenFailed", outcome>>, <<"respond", "500">> >>)
  /\ UNCHANGED <<phase, envConfig, missingVars, exitCode, supabase, currentUser, store>>

\* Mutant of UserinfoReturn: the session slot is written as soon as the profile
\* is fetched, before the upsert.
UserinfoReturnCommitsEarly(r, outcome, profile) ==
  /\ reqs[r].pc = "awaitUser"
  /\ IF outcome = "ok"
       THEN /\ reqs' = [reqs EXCEPT ![r].pc = "awaitUpsert", ![r].user = profile,
                                    ![r].trace = @ \o << <<"userinfoOk", profile.email>>,
                                                         <<"sessionWrite", profile.email>>,
                                                         <<"upsertCall", UpsertRow(profile).email>> >>]
            /\ last' = CallbackStep(r, "userinfo", reqs[r].code, Undef, Null, reqs'[r].trace)
            /\ currentUser' = SessionUser(profile)
       ELSE /\ reqs' = [reqs EXCEPT ![r] = IdleReq]
            /\ last' = CallbackStep(r, "userinfo", reqs[r].code, Undef,
                         [status |-> 500, page |-> "Authentication Failed", cause |-> outcome],
                         reqs[r].trace \o << <<"userinfoFailed", outcome>>, <<"respond", "500">> >>)
            /\ currentUser' = currentUser
  /\ UNCHANGED <<phase, envConfig, missingVars, exitCode, supabase, store>>

\* The userinfo GET settles: on success the handler calls the store's upsert,
\* on a rejection the catch block replies 500.
UserinfoReturn(r, outcome, profile) ==
  /\ reqs[r].pc = "awaitUser"
  /\ IF outcome = "ok"
       THEN /\ reqs' = [reqs EXCEPT ![r].pc = "awaitUpsert", ![r].user = profile,
                                    ![r].trace = @ \o << <<"userinfoOk", profile.email>>,
                                                         <<"upsertCall", UpsertRow(profile).email>> >>]
            /\ last' = CallbackStep(r, "userinfo", reqs[r].code, Undef, Null, reqs'[r].trace)
       ELSE /\ reqs' = [reqs EXCEPT ![r] = IdleReq]
            /\ last' = CallbackStep(r, "userinfo", reqs[r].code, Undef,
                         [status |-> 500, page |-> "Authentication Failed", cause |-> outcome],
                         reqs[r].trace \o << <<"userinfoFailed", outcome>>, <<"respond", "500">> >>)
  /\ UNCHANGED <<phase, envConfig, missingVars, exitCode, supabase, currentUser, store>>

\* The external store applies the row of a pending upsert.  (An upsert the
\* store rejects, or that never reaches it, changes nothing there: it has no
\* step of the store, and shows as the outcome of UpsertReturn.)
StoreUpsert(r) ==
  /\ reqs[r].pc = "awaitUpsert"
  /\ store' = StoreApply(store, UpsertRow(reqs[r].user))
  /\ reqs' = [reqs EXCEPT ![r].pc = "upsertApplied"]
  /\ last' = [op |-> "store", req |-> r, user |-> reqs[r].user, after |-> After]
  /\ UNCHANGED <<phase, envConfig, missingVars, exitCode, supabase, currentUser>>

\* Mutant of AfterUpsert: the `return` before the "Database Error" page is
\* missing, so the handler goes on to the session write and a second response.
AfterUpsertNoReturn(cu, user, outcome) ==
  CASE outcome = "throw" ->
         [session |-> cu,
          resp |-> [status |-> 500, page |-> "Authentication Failed", cause |-> "transport"],
          events |-> << <<"upsertFailed", "throw">>, <<"respond", "500">> >>]
    [] outcome = "error" ->
         [session |-> SessionUser(user),
          resp |-> [status |-> 500, page |-> "Database Error"],
          events |-> << <<"upsertFailed", "error">>, <<"respond", "500">>,
                        <<"sessionWrite", SessionUser(user).email>>, <<"respond", "302">> >>]
    [] OTHER ->
         [session |-> SessionUser(user),
          resp |-> [status |-> 302, location |-> "/"],
          events |-> << <<"upsertOk", user.email>>, <<"sessionWrite", SessionUser(user).email>>,
                        <<"respond", "302">> >>]

\* Mutant of AfterUpsert: a user already in the slot is kept (the first commit
\* wins).
AfterUpsertKeepsExisting(cu, user, outcome) ==
  CASE outcome = "throw" ->
         [session |-> cu,
          resp |-> [status |-> 500, page |-> "Authentication Failed", cause |-> "transport"],
          events |-> << <<"upsertFailed", "throw">>, <<"respond", "500">> >>]
    [] outcome = "error" ->
         [session |-> cu,
          resp |-> [status |-> 500, page |-> "Database Error"],
          events |-> << <<"upsertFailed", "error">>, <<"respond", "500">> >>]
    [] OTHER ->
         [session |-> IF HasUser(cu) THEN cu ELSE SessionUser(user),
          resp |-> [status |-> 302, location |-> "/"],
          events |-> << <<"upsertOk", user.email>>, <<"sessionWrite", SessionUser(user).email>>,
                        <<"respond", "302">> >>]

\* Mutant of AfterUpsert: the session is written before the result's error is
\* tested, so a rejected upsert still authenticates.
AfterUpsertCommitOnError(cu, user, outcome) ==
  CASE outcome = "throw" ->
         [session |-> cu,
          resp |-> [status |-> 500, page |-> "Authentication Failed", cause |-> "transport"],
          events |-> << <<"upsertFailed", "throw">>, <<"respond", "500">> >>]
    [] outcome = "error" ->
         [session |-> SessionUser(user),
          resp |-> [status |-> 500, page |-> "Database Error"],
          events |-> << <<"sessionWrite", SessionUser(user).email>>, <<"upsertFailed", "error">>,
                        <<"respond", "500">> >>]
    [] OTHER ->
         [session |-> SessionUser(user),
          resp |-> [status |-> 302, location |-> "/"],
          events |-> << <<"upsertOk", user.email>>, <<"sessionWrite", SessionUser(user).email>>,
                        <<"respond", "302">> >>]

\* What the handler does with the settled upsert: the catch block's 500 when
\* the call rejected, the 500 "Database Error" page when the result carries an
\* error, and otherwise the session write followed by the redirect to `/`.
\* [session: the slot afterwards; resp: the response; events: what happened]
AfterUpsert(cu, user, outcome) ==
  CASE outcome = "throw" ->
         [session |-> cu,
          resp |-> [status |-> 500, page |-> "Authentication Failed", cause |-> "transport"],
          events |-> << <<"upsertFailed", "throw">>, <<"respond", "500">> >>]
    [] outcome = "error" ->
         [session |-> cu,
          resp |-> [status |-> 500, page |-> "Database Error"],
          events |-> << <<"upsertFailed", "error">>, <<"respond", "500">> >>]
    [] OTHER ->
         [session |-> SessionUser(user),
          resp |-> [status |-> 302, location |-> "/"],
          events |-> << <<"upsertOk", user.email>>, <<"sessionWrite", SessionUser(user).email>>,
                        <<"respond", "302">> >>]

\* The upsert settles and the handler finishes: with the result of an applied
\* upsert ("ok"), or with an error result or a rejected call, which are the
\* outcomes of an upsert the store did not apply.
UpsertReturn(r, outcome) ==
  /\ \/ outcome = "ok" /\ reqs[r].pc = "upsertApplied"
     \/ outcome # "ok" /\ reqs[r].pc = "awaitUpsert"
  /\ LET res == AfterUpsert(currentUser, reqs[r].user, outcome) IN
       /\ currentUser' = res.session
       /\ last' = CallbackStep(r, "upsert", reqs[r].code, Undef, res.resp,
                               reqs[r].trace \o res.events)
                    @@ [user |-> reqs[r].user, upsert |-> outcome]
  /\ reqs' = [reqs EXCEPT ![r] = IdleReq]
  /\ UNCHANGED <<phase, envConfig, missingVars, exitCode, supabase, store>>

Next ==
  \/ ValidateConfig
  \/ StartServer
  \/ Home
  \/ AuthGoogle
  \/ Logout
  \/ Profile
  \/ Health
  \/ NotFound
  \/ \E r \in Reqs, code \in CodeValues, error \in ErrorValues : CallbackEntry(r, code, error)
  \/ \E r \in Reqs, outcome \in HttpOutcomes : TokenReturn(r, outcome)
  \/ \E r \in Reqs, outcome \in HttpOutcomes, profile \in Profiles : UserinfoReturn(r, outcome, profile)
  \/ \E r \in Reqs : StoreUpsert(r)
  \/ \E r \in Reqs, outcome \in UpsertOutcomes : UpsertReturn(r, outcome)

Spec == Init /\ [][Next]_vars


\* ------------------------------------------------------------ fairness

\* A step that resumes callback request r: the call it awaits settles (for the
\* upsert, the store applies the row first or the call fails).
Resume(r) ==
  \/ \E outcome \in HttpOutcomes : TokenReturn(r, outcome)
  \/ \E outcome \in HttpOutcomes, profile \in Profiles : UserinfoReturn(r, outcome, profile)
  \/ StoreUpsert(r)
  \/ \E outcome \in UpsertOutcomes : UpsertReturn(r, outcome)

\* Every outbound call a callback request awaits eventually returns or fails,
\* and the handler is resumed when it has.
OutboundCallsSettle == \A r \in Reqs : WF_vars(Resume(r))

FairSpec == Spec /\ OutboundCallsSettle

\* ------------------------------------------------------------- claims

\* The events of a trace with the given name.
Events(t, name) == { i \in 1..Len(t) : t[i][1] = name }

\* The names of the outbound calls a callback request can make.
OutboundCalls == {"tokenCall", "userinfoCall", "upsertCall"}

\* Whether a trace holds an outbound call.
CallsOut(t) == \E i \in 1..Len(t) : t[i][1] \in OutboundCalls

\* The last step was a callback step that sent a response.
CallbackReplied == last.op = "callback" /\ last.resp # Null

\* The event traces of all callback requests: those in flight and the one
\* whose step ran last.
AllTraces == { reqs[r].trace : r \in Reqs } \cup (IF last.op = "callback" THEN {last.trace} ELSE {})

\* C1: a callback whose token exchange, userinfo fetch and upsert all succeed
\* sets the session slot to exactly {id, email, name, picture} of the fetched
\* profile and replies 302 to `/`; while the slot holds a user, /profile
\* answers 200 with that user and `/` renders the authenticated view of it.
C1_SuccessfulCallbackAuthenticates ==
  /\ (last.op = "callback" /\ last.step = "upsert" /\ last.upsert = "ok") =>
       /\ currentUser = [id |-> last.user.id, email |-> last.user.email,
                         name |-> last.user.name, picture |-> last.user.picture]
       /\ last.resp = [status |-> 302, location |-> "/"]
       /\ last.trace[1] = <<"tokenCall", last.code>>
       /\ last.code \notin {Undef, ""}
  /\ (last.op = "profile" /\ currentUser # Null) =>
       /\ last.resp.status = 200
       /\ DOMAIN last.resp.user = {"id", "email", "name", "picture"}
       /\ last.resp.user = currentUser
  /\ (last.op = "home" /\ currentUser # Null) =>
       /\ last.resp.status = 200
       /\ last.resp.view = "welcome"
       /\ last.resp.name = currentUser.name
       /\ last.resp.picture = currentUser.picture
       /\ last.resp.email = currentUser.email

\* C1 witness: /profile answered 200 with the user a callback committed.
C1_Witness ==
  /\ last.op = "profile"
  /\ last.resp.status = 200
  /\ last.resp.user = [id |-> "1", email |-> "a@b.com", name |-> "A2", picture |-> "p2"]

\* C2: in the trace of every callback request, a session write is preceded, in
\* this order, by a successful token exchange, a successful userinfo fetch and
\* a successful upsert of the written user's email, and a 302 is sent only
\* after a session write; a callback step that changed the slot has such a
\* write for the slot's email in its trace.
C2_SessionWriteAfterPersistence ==
  /\ \A t \in AllTraces :
       /\ \A n \in Events(t, "sessionWrite") :
            \E i, j, k \in 1..Len(t) :
              /\ i < j /\ j < k /\ k < n
              /\ t[i][1] = "tokenOk"
              /\ t[j] = <<"userinfoOk", t[n][2]>>
              /\ t[k] = <<"upsertOk", t[n][2]>>
       /\ \A m \in 1..Len(t) :
            t[m] = <<"respond", "302">> => \E n \in Events(t, "sessionWrite") : n < m
  /\ (last.op = "callback" /\ currentUser # last.before) =>
       /\ currentUser # Null
       /\ \E n \in Events(last.trace, "sessionWrite") : last.trace[n][2] = currentUser.email
  /\ \A r \in Reqs : Events(reqs[r].trace, "sessionWrite") = {}

\* C2 witness: a callback replaced the user in the slot by another one and
\* redirected.
C2_Witness ==
  /\ CallbackReplied
  /\ last.resp.status = 302
  /\ last.before # Null
  /\ currentUser # last.before

\* C3: a callback whose upsert fails replies 500 and leaves the session slot as
\* it found it when the upsert settled; as long as no upsert has succeeded
\* (the store holds no row) the session is empty.
C3_UpsertFailureKeepsSession ==
  /\ (last.op = "callback" /\ last.step = "upsert" /\ last.upsert # "ok") =>
       /\ last.resp.status = 500
       /\ currentUser = last.before
       /\ Events(last.trace, "sessionWrite") = {}
  /\ store = {} => currentUser = Null

\* C3 witness: the upsert of a callback returned an error while the slot held
\* a user.
C3_Witness ==
  /\ last.op = "callback"
  /\ last.step = "upsert"
  /\ last.upsert = "error"
  /\ last.before # Null

\* C4 as stated: after a callback request has sent an error page the session
\* slot holds no user, whatever it held before.
C4_Original_FailureUnauthenticates ==
  (CallbackReplied /\ last.resp.status \in {400, 500}) => currentUser = Null

\* C4 as amended: a callback step that sends an error page (400 or 500) leaves
\* the session slot as it found it, so the system is Unauthenticated afterwards
\* exactly when it was before that step; the failing request is over.
C4_FailureKeepsSession ==
  (CallbackReplied /\ last.resp.status \in {400, 500}) =>
    /\ currentUser = last.before
    /\ Events(last.trace, "sessionWrite") = {}
    /\ reqs[last.req].pc = "idle"

\* C4 witness: the token exchange of a callback failed while a user was
\* authenticated.
C4_Witness ==
  /\ CallbackReplied
  /\ last.step = "token"
  /\ last.resp.status = 500
  /\ currentUser # Null

\* C5 as stated: a callback request with an `error` parameter, whatever its
\* value, replies 400, makes no outbound call and leaves the session unchanged.
C5_Original_ErrorParameterStops ==
  (last.op = "callback" /\ last.step = "entry" /\ last.error # Undef) =>
    /\ last.resp # Null
    /\ last.resp.status = 400
    /\ ~CallsOut(last.trace)
    /\ currentUser = last.before

\* C5 as amended: a callback request whose `error` parameter has a non-empty
\* value, with or without a code, replies 400, makes no outbound call, leaves
\* the session unchanged and is over.
C5_NonEmptyErrorStops ==
  (last.op = "callback" /\ last.step = "entry" /\ last.error \notin {Undef, ""}) =>
    /\ last.resp # Null
    /\ last.resp.status = 400
    /\ last.trace = << <<"respond", "400">> >>
    /\ currentUser = last.before
    /\ reqs[last.req].pc = "idle"

\* C5 witness: a callback request with both an error and a code was refused
\* while a user was authenticated.
C5_Witness ==
  /\ CallbackReplied
  /\ last.step = "entry"
  /\ last.error = "access_denied"
  /\ last.code = "c1"
  /\ last.resp.status = 400
  /\ currentUser # Null

\* C6: a callback request with neither `code` nor `error` replies 400, makes no
\* outbound call, leaves the session unchanged and is over.
C6_MissingCodeStops ==
  (last.op = "callback" /\ last.step = "entry" /\ last.code = Undef /\ last.error = Undef) =>
    /\ last.resp # Null
    /\ last.resp.status = 400
    /\ last.trace = << <<"respond", "400">> >>
    /\ currentUser = last.before
    /\ reqs[last.req].pc = "idle"

\* C6 witness: such a request was refused while another callback was waiting
\* for its upsert.
C6_Witness ==
  /\ CallbackReplied
  /\ last.step = "entry"
  /\ last.code = Undef
  /\ last.error = Undef
  /\ last.resp.status = 400
  /\ \E r \in Reqs : reqs[r].pc = "upsertApplied"

\* C7: /profile answers 401 with the login URL `/auth/google` exactly when the
\* session slot holds no user, and 200 with the slot's user otherwise.
C7_ProfileGuard ==
  last.op = "profile" =>
    /\ last.resp.status \in {200, 401}
    /\ (last.resp.status = 401) <=> (currentUser = Null)
    /\ last.resp.status = 401 => last.resp.loginUrl = "/auth/google"
    /\ last.resp.status = 401 => "user" \notin DOMAIN last.resp
    /\ last.resp.status = 200 => last.resp.user = currentUser

\* C7 witness: /profile answered 401 although a user had been stored earlier.
C7_Witness ==
  /\ last.op = "profile"
  /\ last.resp.status = 401
  /\ store # {}

\* C8: a /profile handled right after a /logout answers 401, whatever the slot
\* held before the logout and whatever callbacks are in flight.
C8_ProfileAfterLogout ==
  (last.op = "profile" /\ last.after \in {"logoutOfUser", "logoutOfNobody"}) =>
    /\ last.resp.status = 401
    /\ last.resp.loginUrl = "/auth/google"

\* C8 witness: /profile right after a /logout that cleared a user, while a
\* callback whose upsert the store has applied is about to commit.
C8_Witness ==
  /\ last.op = "profile"
  /\ last.after = "logoutOfUser"
  /\ \E r \in Reqs : reqs[r].pc = "upsertApplied"

\* The names of the required values that are absent or empty in a config.
AbsentNames(cfg) ==
  (IF cfg.url \in {Undef, ""} THEN {"SUPABASE_URL"} ELSE {})
  \cup (IF cfg.key \in {Undef, ""} THEN {"SUPABASE_ANON_KEY"} ELSE {})
  \cup (IF cfg.clientId \in {Undef, ""} THEN {"GOOGLE_CLIENT_ID"} ELSE {})
  \cup (IF cfg.clientSecret \in {Undef, ""} THEN {"GOOGLE_CLIENT_SECRET"} ELSE {})

\* C9: once validateConfig has run it has reported exactly the required names
\* that are absent or empty; if there is one, the process has exited with a
\* non-zero status, the store client was never created and no request was
\* handled; if there is none, the process has not exited and goes on to serve.
C9_ConfigValidation ==
  phase # "boot" =>
    /\ { missingVars[i] : i \in 1..Len(missingVars) } = AbsentNames(envConfig)
    /\ Len(missingVars) = Cardinality(AbsentNames(envConfig))
    /\ AbsentNames(envConfig) # {} =>
         /\ phase = "exited"
         /\ exitCode > 0
         /\ supabase = FALSE
         /\ last.op = "validateConfig"
         /\ ~ENABLED Next
    /\ AbsentNames(envConfig) = {} =>
         /\ phase \in {"validated", "serving"}
         /\ exitCode = -1
         /\ phase = "validated" => ENABLED StartServer
         /\ phase = "serving" => supabase = TRUE

\* C9 witness: the process exited reporting two names, one of them for an
\* empty value.
C9_Witness ==
  /\ phase = "exited"
  /\ envConfig.key = ""
  /\ missingVars = <<"SUPABASE_ANON_KEY", "GOOGLE_CLIENT_SECRET">>

\* The states of the session slot.
SessionValues == {Null} \cup { [id |-> p.id, email |-> p.email, name |-> p.name, picture |-> p.picture] : p \in Profiles }

\* C10: /health answers 200 and changes nothing; `authenticated` is true
\* exactly when the slot holds a user, `hasDatabase` exactly when the database
\* URL is set and `hasGoogleOAuth` exactly when the provider client id is set
\* (both false for an empty string or undefined); the handler computes the
\* body that way for every value of the two settings and of the slot.
C10_Health ==
  /\ [](last.op = "health" =>
          /\ last.resp.status = 200
          /\ last.resp.authenticated = (currentUser # Null)
          /\ last.resp.hasDatabase = (envConfig.url \notin {Undef, ""})
          /\ last.resp.hasGoogleOAuth = (envConfig.clientId \notin {Undef, ""})
          /\ \A url \in EnvValues, clientId \in EnvValues, cu \in SessionValues :
               LET body == HealthBody([envConfig EXCEPT !.url = url, !.clientId = clientId], cu) IN
                 /\ body.status = 200
                 /\ body.authenticated = (cu # Null)
                 /\ body.hasDatabase = (url \notin {Undef, ""})
                 /\ body.hasGoogleOAuth = (clientId \notin {Undef, ""}))
  /\ [][last'.op = "health" =>
          UNCHANGED <<phase, envConfig, missingVars, exitCode, supabase, currentUser, store, reqs>>]_vars

\* C10 witness: /health reported an authenticated session with callbacks in
\* flight.
C10_Witness ==
  /\ last.op = "health"
  /\ last.resp.authenticated = TRUE
  /\ InFlight # {}

\* C11: a callback whose token exchange fails replies 500 having made one
\* token call and no userinfo or upsert call; one whose userinfo fetch fails
\* replies 500 having made one token call, one userinfo call and no upsert
\* call; neither writes the session slot; no callback request makes any of
\* the three calls more than once.
C11_NoRetryNoLaterCall ==
  /\ (CallbackReplied /\ last.step = "token") =>
       /\ last.resp.status = 500
       /\ Cardinality(Events(last.trace, "tokenCall")) = 1
       /\ Events(last.trace, "userinfoCall") = {}
       /\ Events(last.trace, "upsertCall") = {}
       /\ Events(last.trace, "sessionWrite") = {}
       /\ currentUser = last.before
       /\ reqs[last.req].pc = "idle"
  /\ (CallbackReplied /\ last.step = "userinfo") =>
       /\ last.resp.status = 500
       /\ Cardinality(Events(last.trace, "tokenCall")) = 1
       /\ Cardinality(Events(last.trace, "userinfoCall")) = 1
       /\ Events(last.trace, "upsertCall") = {}
       /\ Events(last.trace, "sessionWrite") = {}
       /\ currentUser = last.before
       /\ reqs[last.req].pc = "idle"
  /\ \A t \in AllTraces : \A call \in OutboundCalls : Cardinality(Events(t, call)) <= 1

\* C11 witness: the userinfo fetch of a callback got a non-2xx response while
\* another callback was waiting for its token.
C11_Witness ==
  /\ CallbackReplied
  /\ last.step = "userinfo"
  /\ last.resp.status = 500
  /\ last.resp.cause = "non2xx"
  /\ \E r \in Reqs : reqs[r].pc = "awaitToken"

\* C12: provided every outbound call settles, every callback request in
\* flight is eventually answered; a callback step that ends its request has
\* sent exactly one response, a 302, 400 or 500, and a request still in flight
\* has sent none.
C12_ExactlyOneResponse ==
  /\ \A r \in Reqs :
       (reqs[r].pc # "idle") ~> (CallbackReplied /\ last.req = r /\ reqs[r].pc = "idle")
  /\ []((last.op = "callback" /\ reqs[last.req].pc = "idle") =>
          /\ last.resp # Null
          /\ last.resp.status \in {302, 400, 500}
          /\ Cardinality(Events(last.trace, "respond")) = 1
          /\ last.trace[Len(last.trace)][1] = "respond")
  /\ [](\A r \in Reqs : Events(reqs[r].trace, "respond") = {})
  /\ []((last.op = "callback" /\ last.resp = Null) => reqs[last.req].pc # "idle")

\* C12 witness: a rejected upsert call (the last await) was answered with the
\* catch block's 500.
C12_Witness ==
  /\ CallbackReplied
  /\ last.step = "upsert"
  /\ last.upsert = "throw"
  /\ last.resp.status = 500
  /\ Cardinality(Events(last.trace, "respond")) = 1

\* The row the store must hold for a userinfo document.
RowOf(user) ==
  [email |-> user.email, name |-> user.name, picture |-> user.picture, google_id |-> user.id]

C14_LastWriteWins ==
  [][/\ last'.op = "logout" => currentUser' = Null
     /\ (last'.op = "callback" /\ last'.step = "upsert" /\ last'.upsert = "ok") =>
          currentUser' = [id |-> last'.user.id, email |-> last'.user.email,
                          name |-> last'.user.name, picture |-> last'.user.picture]
     /\ ~(\/ last'.op = "logout"
          \/ last'.op = "callback" /\ last'.step = "upsert" /\ last'.upsert = "ok") =>
          currentUser' = currentUser]_vars

\* C14 witness: a callback that was in flight during a /logout committed right
\* after it, overwriting nothing but the empty slot: the session is
\* authenticated again, while another callback is still to commit.
C14_Witness ==
  /\ last.op = "callback"
  /\ last.step = "upsert"
  /\ last.upsert = "ok"
  /\ last.after = "logoutOfUser"
  /\ currentUser # Null
  /\ \E r \in Reqs : reqs[r].pc = "upsertApplied"

\* C15: whenever the session slot holds a user the store holds a row with that
\* user's email, and no step removes the row of an email from the store.
C15_SessionUserIsStored ==
  /\ [](currentUser # Null => \E x \in store : x.email = currentUser.email)
  /\ [][{ x.email : x \in store } \subseteq { x.email : x \in store' }]_vars

\* C15 witness: after a /logout the rows are still there, and the slot holds a
\* user whose row has since been overwritten with another name.
C15_Witness ==
  /\ currentUser # Null
  /\ \E x \in store : x.email = currentUser.email /\ x.name # currentUser.name
  /\ Cardinality(store) = 2

\* The routes that only read.
ReadOnlyOps == {"home", "authGoogle", "profile", "health", "notFound"}

\* C16: the session slot changes only in a /logout step (to empty) and in the
\* commit step of a callback; the steps of /, /auth/google, /profile, /health
\* and unmatched paths change neither the slot nor the store nor any callback
\* request (they make no outbound call); the configuration never changes.
C16_Frame ==
  [][/\ currentUser' # currentUser =>
          \/ last'.op = "logout" /\ currentUser' = Null
          \/ last'.op = "callback" /\ last'.step = "upsert" /\ last'.upsert = "ok"
     /\ last'.op \in ReadOnlyOps => UNCHANGED <<currentUser, store, reqs, supabase, phase>>
     /\ envConfig' = envConfig]_vars

\* C16 witness: an unmatched path was requested while a user was authenticated
\* and a callback was waiting for its upsert.
C16_Witness ==
  /\ last.op = "notFound"
  /\ currentUser # Null
  /\ \E r \in Reqs : reqs[r].pc = "awaitUpsert"

\* The steps that handle an HTTP request.
RequestOps == ReadOnlyOps \cup {"logout", "callback"}

\* C17: whenever the server is serving or has handled a request, all four
\* required values are non-empty, and every /health response has hasDatabase
\* and hasGoogleOAuth true.
C17_ServingImpliesConfigured ==
  /\ (phase = "serving" \/ last.op \in RequestOps) =>
       /\ envConfig.url \notin {Undef, ""}
       /\ envConfig.key \notin {Undef, ""}
       /\ envConfig.clientId \notin {Undef, ""}
       /\ envConfig.clientSecret \notin {Undef, ""}
  /\ last.op = "health" =>
       /\ last.resp.hasDatabase = TRUE
       /\ last.resp.hasGoogleOAuth = TRUE

\* C17 witness: a /health response of an unauthenticated server.
C17_Witness ==
  /\ last.op = "health"
  /\ last.resp.hasDatabase
  /\ last.resp.hasGoogleOAuth
  /\ ~last.resp.authenticated

\* C18: /logout always answers 200 and leaves the session slot empty; with an
\* empty slot it changes nothing, so a second /logout right after one leaves
\* the program's state as it was; /logout changes neither the store nor any
\* callback request.
C18_LogoutIdempotent ==
  /\ [](last.op = "logout" => last.resp.status = 200 /\ currentUser = Null)
  /\ [][last'.op = "logout" =>
          /\ UNCHANGED <<store, reqs, phase, envConfig, supabase>>
          /\ currentUser = Null => currentUser' = currentUser
          /\ last.op = "logout" => currentUser' = currentUser]_vars

\* C18 witness: a second /logout right after one that cleared a user, with rows
\* in the store.
C18_Witness ==
  /\ last.op = "logout"
  /\ last.after = "logoutOfUser"
  /\ last.loggedOut = Undef
  /\ store # {}

====
